---------------------------- MODULE Spec2Model ----------------------------
(***************************************************************************)
(* Model of summoner/agents/agent_InputAgent/multi_ainput.py:              *)
(*   _rows_used   - the row count of an echoed "<prompt><text>"            *)
(*   multi_ainput - the continuation loop with its erase/redraw            *)
(* of send_handler and add_sender_id in                                    *)
(* summoner/agents/agent_InputAgent/agent.py, and of the programs around   *)
(* them:                                                                   *)
(*   summoner/2_structured_outputs.py    - the buffering agent             *)
(*   pydantic-ai/09_stateful_graphs.py   - the vending-machine graph       *)
(*   pydantic-ai/10_human_in_the_loop.py - the tool approvals              *)
(*   pydantic-ai/05_output_validators.py - validate_user_profile           *)
(* Each program has its own variables and specification; the variables of  *)
(* the others stay at their idle values.                                   *)
(*                                                                         *)
(* A string is a sequence of characters; a character is a one-token        *)
(* string.  "a" stands for a printable width-1 character, "WIDE" for       *)
(* an East-Asian wide character, "COMB" for a combining mark, "BEL" for a  *)
(* control character, "TAB", "CR", "LF" and "ESC" for \t, \r, \n and \x1b. *)
(***************************************************************************)
EXTENDS Integers, Sequences, FiniteSets, TLC

\* ------------------------------------------------------------------ bounds

MaxPromptLen == 1
MaxTextLen == 2
MaxCols == 3
MaxLines == 3
MaxLineLen == 2
MaxTermCols == 4
MaxContentLen == 3

\* ------------------------------------------------------------- characters

TAB == "TAB"
CR == "CR"
LF == "LF"
ESC == "ESC"

\* The characters _rows_used is exercised with.
RowChars == {"a", "WIDE", "COMB", "BEL", TAB}

\* The tab sizes _rows_used is exercised with (the default is 8).
TabSizes == {-2, -1, 0, 1, 2, 3}

RECURSIVE StringsUpTo(_, _)
StringsUpTo(chars, n) ==
    IF n = 0 THEN {<<>>}
    ELSE LET shorter == StringsUpTo(chars, n - 1)
         IN  shorter \cup {Append(s, c) : s \in {t \in shorter : Len(t) = n - 1}, c \in chars}

\* ------------------------------------------------------------- _rows_used

\* wcwidth.wcwidth: -1 for a control character, 0 for a combining mark,
\* 2 for a wide character, 1 for any other printable character.
wcwidth(ch) ==
    CASE ch = "BEL" -> -1
      [] ch = "COMB" -> 0
      [] ch = "WIDE" -> 2
      [] OTHER -> 1

\* Python's a % b for b # 0: the result has the sign of b.
PyMod(a, b) == IF b > 0 THEN a % b ELSE -((-a) % (-b))

\* Python's max(a, b).
max(a, b) == IF a >= b THEN a ELSE b

\* cols = max(1, shutil.get_terminal_size((80, 20)).columns)
ClampCols(columns) == max(1, columns)

\* A slip: a tab always advancing by the whole tab size.
_advance_whole_tab(col, ch, tabsize) ==
    IF ch = TAB
    THEN IF tabsize = 0
         THEN [raised |-> "ZeroDivisionError", col |-> col]
         ELSE [raised |-> "none", col |-> col + tabsize]
    ELSE LET w == wcwidth(ch)
         IN  [raised |-> "none", col |-> col + (IF w < 0 THEN 0 ELSE w)]

\* _advance(col, ch): the column after ch, or the exception it raises.
\* "col % tabsize or 0 if tabsize == 0 else col % tabsize" parses as
\* "(col % tabsize or 0) if tabsize == 0 else (col % tabsize)": with
\* tabsize == 0 the first branch evaluates col % 0.
_advance(col, ch, tabsize) ==
    IF ch = TAB
    THEN IF tabsize = 0
         THEN [raised |-> "ZeroDivisionError", col |-> col]
         ELSE [raised |-> "none", col |-> col + (tabsize - PyMod(col, tabsize))]
    ELSE LET w == wcwidth(ch)
         IN  [raised |-> "none", col |-> col + (IF w < 0 THEN 0 ELSE w)]

\* A slip: wrapping only once the column exceeds the width.
WrapAfterExceeding(rows, col, new_col, cols) ==
    IF new_col > cols
    THEN [rows |-> rows + (new_col \div cols), col |-> new_col % cols]
    ELSE [rows |-> rows, col |-> new_col]

\* "wrap as needed": the rows and column after the column reached new_col.
Wrap(rows, col, new_col, cols) ==
    IF new_col >= cols
    THEN [rows |-> rows + (new_col \div cols), col |-> new_col % cols]
    ELSE [rows |-> rows, col |-> new_col]

\* One iteration of "for ch in prompt" / "for ch in text".
WalkChar(st, ch, tabsize, cols) ==
    LET adv == _advance(st.col, ch, tabsize)
    IN  IF adv.raised # "none"
        THEN [rows |-> st.rows, col |-> st.col, raised |-> adv.raised]
        ELSE LET w == Wrap(st.rows, st.col, adv.col, cols)
             IN  [rows |-> w.rows, col |-> w.col, raised |-> "none"]

\* A whole loop over s, stopping at the first exception.
RECURSIVE WalkString(_, _, _, _)
WalkString(st, s, tabsize, cols) ==
    IF s = <<>> \/ st.raised # "none" THEN st
    ELSE WalkString(WalkChar(st, Head(s), tabsize, cols), Tail(s), tabsize, cols)

\* rows = 1; col = 0
StartOfWalk == [rows |-> 1, col |-> 0, raised |-> "none"]

\* _rows_used(prompt, text, tabsize) on a terminal of the given columns:
\* the rows it returns, or the exception it raises.
_rows_used(prompt, text, tabsize, columns) ==
    LET cols == ClampCols(columns)
        afterPrompt == WalkString(StartOfWalk, prompt, tabsize, cols)
        afterText == WalkString(afterPrompt, text, tabsize, cols)
    IN  [raised |-> afterText.raised, rows |-> afterText.rows]

\* ------------------------------------------------------------ multi_ainput

\* ANSI helpers.  "{}".format(n) writes n in decimal.
DigitChars == <<"0", "1", "2", "3", "4", "5", "6", "7", "8", "9">>

RECURSIVE FormatInt(_)
FormatInt(n) ==
    IF n < 0 THEN <<"-">> \o FormatInt(-n)
    ELSE IF n < 10 THEN <<DigitChars[n + 1]>>
    ELSE FormatInt(n \div 10) \o <<DigitChars[(n % 10) + 1]>>

_CURSOR_UP_FMT(n) == <<ESC, "[">> \o FormatInt(n) \o <<"A">>

_CURSOR_DOWN_FMT(n) == <<ESC, "[">> \o FormatInt(n) \o <<"B">>

_CLEAR_LINE == <<ESC, "[", "2", "K">>

\* The arguments send_handler passes, which are the defaults too.
prompt == <<">", " ">>

cont_prompt == <<"~", " ">>

sentinel == <<"\\">>

\* The tabsize multi_ainput leaves to its default.
DefaultTabsize == 8

\* str.endswith
endswith(s, suffix) ==
    /\ Len(suffix) <= Len(s)
    /\ SubSeq(s, Len(s) - Len(suffix) + 1, Len(s)) = suffix

\* A slip: line.rstrip(sentinel), which strips every trailing sentinel.
RECURSIVE line_clean_rstrip(_)
line_clean_rstrip(line) ==
    IF line # <<>> /\ line[Len(line)] = "\\"
    THEN line_clean_rstrip(SubSeq(line, 1, Len(line) - 1))
    ELSE line

\* A slip: the sentinel stripped only from a line that holds more than it.
line_clean_keeps_lone_sentinel(line) ==
    IF Len(line) > 1 THEN SubSeq(line, 1, Len(line) - 1) ELSE line

\* line_clean = line[:-1]
line_clean(line) == SubSeq(line, 1, Len(line) - 1)

\* "\n".join(lines)
RECURSIVE JoinLines(_)
JoinLines(ls) ==
    IF ls = <<>> THEN <<>>
    ELSE IF Len(ls) = 1 THEN ls[1]
    ELSE ls[1] \o <<LF>> \o JoinLines(Tail(ls))

\* A slip: a cursor-down after every cleared row, the last included.
RECURSIVE ClearRowsDownAfterEach(_, _)
ClearRowsDownAfterEach(rows, i) ==
    IF i >= rows THEN <<>>
    ELSE <<<<CR>> \o _CLEAR_LINE, _CURSOR_DOWN_FMT(1)>>
         \o ClearRowsDownAfterEach(rows, i + 1)

\* for i in range(rows): write("\r" + _CLEAR_LINE), and a cursor-down
\* after every row but the last.  The result is the sequence of writes.
RECURSIVE ClearRows(_, _)
ClearRows(rows, i) ==
    IF i >= rows THEN <<>>
    ELSE <<<<CR>> \o _CLEAR_LINE>>
         \o (IF i < rows - 1 THEN <<_CURSOR_DOWN_FMT(1)>> ELSE <<>>)
         \o ClearRows(rows, i + 1)

\* A slip: the closing cursor-up written for a block of one row too.
EraseWritesAlwaysUp(rows) ==
    <<_CURSOR_UP_FMT(rows)>> \o ClearRows(rows, 0) \o <<_CURSOR_UP_FMT(rows - 1)>>

\* The writes that erase a block of the given rows: up to its start, the
\* clearing, and back to the top of the cleared block.
EraseWrites(rows) ==
    <<_CURSOR_UP_FMT(rows)>>
    \o ClearRows(rows, 0)
    \o (IF rows > 1 THEN <<_CURSOR_UP_FMT(rows - 1)>> ELSE <<>>)

\* A slip: the redraw written without the prompt.
RedrawWriteNoPrompt(cur, clean) == clean \o <<LF>>

\* sys.stdout.write(f"{current_prompt}{line_clean}\n")
RedrawWrite(cur, clean) == cur \o clean \o <<LF>>

\* A slip: the flush left out.
NoFlush(written, alreadyFlushed) == alreadyFlushed

\* sys.stdout.flush(): every write made so far has reached the sink.
Flush(written, alreadyFlushed) == Len(written)

\* A slip: the erase and redraw done for a line without the sentinel too.
LastLineWritesRedraw(cur, line) == EraseWrites(1) \o <<RedrawWrite(cur, line)>>

\* lines.append(line); break: the branch of a line without the sentinel
\* writes nothing.
LastLineWrites(cur, line) == <<>>

\* A message returned, and no message.
Returned(msg) == [returned |-> TRUE, value |-> msg]

NotReturned == [returned |-> FALSE, value |-> <<>>]

\* A slip: the read's exception caught and the lines so far returned.
OnReadErrorPartial(exc, ls) == [pc |-> "returned", result |-> Returned(JoinLines(ls))]

\* "await ainput(current_prompt)" raises (EOFError when the stream closes,
\* CancelledError when the task is cancelled): no handler encloses it, so
\* the exception leaves multi_ainput whatever lines holds.
OnReadError(exc, ls) == [pc |-> exc, result |-> NotReturned]

\* The characters a typed line is made of, and the lines fed to a session.
LineChars == {"a", "\\"}

\* The documented round trip: "hello \" then "world".
HelloLine == <<"h", "e", "l", "l", "o", " ", "\\">>

WorldLine == <<"w", "o", "r", "l", "d">>

TypedLines == StringsUpTo(LineChars, MaxLineLen) \cup {HelloLine, WorldLine}

ReadErrors == {"EOFError", "CancelledError"}

\* ------------------------------------------------------------ send_handler

\* The characters of a composed content: a digit, the brackets of a JSON
\* array, a letter that is no JSON, and the line break multi_ainput joins
\* lines with; the braces of a JSON object, "FROM" for the member
\* "from": "eve" typed whole, "KEY" for the member "k": "v", and "null"
\* for the literal null.
SendChars == {"1", "[", "]", "x", LF, "{", "}", "FROM", "KEY", "null"}

\* content.replace("\n", "")
RECURSIVE replace_newlines(_)
replace_newlines(s) ==
    IF s = <<>> THEN <<>>
    ELSE IF Head(s) = LF THEN replace_newlines(Tail(s))
    ELSE <<Head(s)>> \o replace_newlines(Tail(s))

\* The values json.loads builds from these characters: an int, a list,
\* None, or a dict, whose members are pairs of a key and a string.
JsonInt(n) == [type |-> "int", n |-> n, items |-> <<>>, members |-> <<>>]

JsonList(items) == [type |-> "list", n |-> 0, items |-> items, members |-> <<>>]

JsonNull == [type |-> "null", n |-> 0, items |-> <<>>, members |-> <<>>]

JsonDict(members) == [type |-> "dict", n |-> 0, items |-> <<>>, members |-> members]

NoValue == [type |-> "none", n |-> 0, items |-> <<>>, members |-> <<>>]

\* The member a member token spells.
Member(tok) == IF tok = "FROM" THEN <<"from", <<"eve">>>> ELSE <<"k", <<"v">>>>

\* The position after the run of digits of s that starts at i, and the
\* int the decoder makes of such a run.
RECURSIVE DigitsEnd(_, _)
DigitsEnd(s, i) == IF i <= Len(s) /\ s[i] = "1" THEN DigitsEnd(s, i + 1) ELSE i

RECURSIVE int_of_digits(_)
int_of_digits(ds) ==
    IF Len(ds) = 1 THEN 1
    ELSE 10 * int_of_digits(SubSeq(ds, 1, Len(ds) - 1)) + 1

\* The decoder's scan of one value of s from position i: whether it
\* succeeds, the position after the value, and the value.  Applied to text
\* without line breaks.
RECURSIVE ScanValue(_, _)
ScanValue(s, i) ==
    IF i > Len(s) THEN [ok |-> FALSE, next |-> i, value |-> NoValue]
    ELSE IF s[i] = "1"
    THEN LET j == DigitsEnd(s, i)
         IN  [ok |-> TRUE, next |-> j, value |-> JsonInt(int_of_digits(SubSeq(s, i, j - 1)))]
    ELSE IF s[i] = "["
    THEN IF i < Len(s) /\ s[i + 1] = "]"
         THEN [ok |-> TRUE, next |-> i + 2, value |-> JsonList(<<>>)]
         ELSE LET inner == ScanValue(s, i + 1)
              IN  IF inner.ok /\ inner.next <= Len(s) /\ s[inner.next] = "]"
                  THEN [ok |-> TRUE, next |-> inner.next + 1, value |-> JsonList(<<inner.value>>)]
                  ELSE [ok |-> FALSE, next |-> i, value |-> NoValue]
    ELSE IF s[i] = "null"
    THEN [ok |-> TRUE, next |-> i + 1, value |-> JsonNull]
    ELSE IF s[i] = "{"
    THEN IF i < Len(s) /\ s[i + 1] = "}"
         THEN [ok |-> TRUE, next |-> i + 2, value |-> JsonDict(<<>>)]
         ELSE IF i + 1 < Len(s) /\ s[i + 1] \in {"FROM", "KEY"} /\ s[i + 2] = "}"
         THEN [ok |-> TRUE, next |-> i + 3, value |-> JsonDict(<<Member(s[i + 1])>>)]
         ELSE [ok |-> FALSE, next |-> i, value |-> NoValue]
    ELSE [ok |-> FALSE, next |-> i, value |-> NoValue]

\* json.loads(s): the value, or the failure (a JSONDecodeError) when s is
\* no JSON text or holds more than one.
json_loads(s) ==
    LET r == ScanValue(s, 1)
    IN  IF r.ok /\ r.next = Len(s) + 1
        THEN [ok |-> TRUE, value |-> r.value]
        ELSE [ok |-> FALSE, value |-> NoValue]

\* What send_handler returns: the parsed value, or the content string.
Parsed(value) == [json |-> TRUE, value |-> value, text |-> <<>>]

RawText(text) == [json |-> FALSE, value |-> NoValue, text |-> text]

NoOutput == [json |-> FALSE, value |-> NoValue, text |-> <<"None">>]

\* A slip: the content returned with its line breaks removed.
SendOutputStripped(c) ==
    LET r == json_loads(replace_newlines(c))
    IN  IF r.ok THEN Parsed(r.value) ELSE RawText(replace_newlines(c))

\* try: output = json.loads(content.replace("\n", ""))
\* except: output = content
SendOutput(c) ==
    LET r == json_loads(replace_newlines(c))
    IN  IF r.ok THEN Parsed(r.value) ELSE RawText(c)

\* What the SEND hook returns: a dict, as its members in order, or None.
HookDict(members) == [dict |-> TRUE, members |-> members]

HookNone == [dict |-> FALSE, members |-> <<>>]

\* d[key] = value on a dict: the value replaced in place, or the member added
set_item(members, key, value) ==
    IF \E i \in 1..Len(members) : members[i][1] = key
    THEN [i \in 1..Len(members) |->
             IF members[i][1] = key THEN <<key, value>> ELSE members[i]]
    ELSE Append(members, <<key, value>>)

\* A slip: the sender id set only when the payload names none.
add_sender_id_setdefault(payload) ==
    IF ~payload.json
    THEN HookDict(<<<<"message", payload.text>>, <<"from", <<"user">>>>>>)
    ELSE IF payload.value.type = "dict"
    THEN IF \E i \in 1..Len(payload.value.members) : payload.value.members[i][1] = "from"
         THEN HookDict(payload.value.members)
         ELSE HookDict(Append(payload.value.members, <<"from", <<"user">>>>))
    ELSE HookNone

\* add_sender_id(payload): a str is wrapped as {"message": payload}, what
\* is no dict then is dropped, and payload["from"] = "user"
add_sender_id(payload) ==
    LET wrapped == IF ~payload.json
                   THEN JsonDict(<<<<"message", payload.text>>>>)
                   ELSE payload.value
    IN  IF wrapped.type # "dict"
        THEN HookNone
        ELSE HookDict(set_item(wrapped.members, "from", <<"user">>))

VARIABLES
    rpc,        \* position in _rows_used: "idle", "prompt", "text", "returned", "raised"
    r_prompt,   \* its argument prompt
    r_text,     \* its argument text
    tabsize,    \* its argument tabsize
    columns,    \* what shutil.get_terminal_size reports
    walk,       \* its locals rows and col, and the exception raised if any
    idx         \* the position of the running for loop in its string

rvars == <<rpc, r_prompt, r_text, tabsize, columns, walk, idx>>

VARIABLES
    pc,             \* position in multi_ainput: "idle", "reading", "returned", or the exception that left it
    lines,          \* its local lines
    current_prompt, \* its local current_prompt
    stdout,         \* the strings written by sys.stdout.write, in order
    flushed,        \* how many of them sys.stdout.flush has pushed to the sink
    result,         \* what multi_ainput returned, if it did
    isatty,         \* whether the output sink is an interactive terminal
    reads,          \* history: the prompt and the line, as typed, of every read
    redraws         \* history: per continued line, its read, the columns reported and its writes

svars == <<pc, lines, current_prompt, stdout, flushed, result, isatty, reads, redraws>>

VARIABLES
    sh_pc,      \* position in send_handler: "idle", "awaiting", "returned", "read_error"; "hooked" once the SEND hook ran
    multiline,  \* prompt_args.multiline
    content,    \* its local content
    output,     \* what it returned
    sent        \* what add_sender_id made of it

hvars == <<sh_pc, multiline, content, output, sent>>

VARIABLES
    message_buffer, \* the asyncio.Queue: the payloads put and not yet taken
    unfinished,     \* the queue's count of unfinished tasks
    buffer_lock,    \* the sender that holds the asyncio.Lock, or NoSender
    b_pc,           \* per send_message task, its position: "ready", "sleeping", "acquiring", "locked", "calling"
    incoming,       \* per task, its local incoming
    ret,            \* per task, how its last call left: "pending", "None", "out", or the exception raised
    exit_line,      \* per task, the source line its last call left at
    n_taken,        \* history: per task, the payloads its current call has taken
    arrived,        \* history: every payload recv_message has put, in order
    taken,          \* history: every payload get_nowait has handed out, in order
    task_dones,     \* history: the calls of task_done
    n_calls         \* history: the calls of send_message started

bvars == <<message_buffer, unfinished, buffer_lock, b_pc, incoming, ret, exit_line,
           n_taken, arrived, taken, task_dones, n_calls>>

VARIABLES
    node,           \* the vending graph's current node, "End", or the exception that stopped the run
    amount,         \* CoinsInserted.amount, in cents
    purchase,       \* Purchase.product
    user_balance,   \* MachineState.user_balance, in cents
    product,        \* MachineState.product
    last,           \* history: the node that ran last, with the state and fields it started from
    coins           \* history: the amounts inserted, in order

gvars == <<node, amount, purchase, user_balance, product, last, coins>>

VARIABLES
    a_pc,           \* position in the approval demo's main: "none", "run1", "deciding", "run2", "done", or the exception that left it
    tool_calls,     \* the tool calls the model issues in the first run; a call's id is its index
    next_call,      \* the call, or the pending approval, the running loop is at
    approvals,      \* requests.approvals: the ids of the calls deferred for approval, in order
    results,        \* results.approvals: per call id, "ToolApproved", "ToolDenied" or "unset"
    executions      \* history: every run of a tool function, with its arguments and outcome

avars == <<a_pc, tool_calls, next_call, approvals, results, executions>>

VARIABLES
    v_pc,       \* position of the agent run around validate_user_profile: "none", "asking", "validating", "returned", "ModelRetry"
    v_output,   \* the UserProfile the model proposed last
    v_result,   \* what validate_user_profile returned, if it did
    v_retries   \* the retries the run has asked the model for

uvars == <<v_pc, v_output, v_result, v_retries>>

\* The variables of the demonstration programs around the input agent.
dvars == <<bvars, gvars, avars, uvars>>

vars == <<rvars, svars, hvars, dvars>>

\* The senders: the send_message tasks the client may have in flight.
MaxSenders == 2

Senders == 1..MaxSenders

NoSender == 0

\* incoming before get_nowait has bound it.
NoPayload == "unbound"

\* The buffering agent before setup() has any traffic.
IdleBuffer ==
    /\ message_buffer = <<>>
    /\ unfinished = 0
    /\ buffer_lock = NoSender
    /\ b_pc = [t \in Senders |-> "ready"]
    /\ incoming = [t \in Senders |-> NoPayload]
    /\ ret = [t \in Senders |-> "pending"]
    /\ exit_line = [t \in Senders |-> 0]
    /\ n_taken = [t \in Senders |-> 0]
    /\ arrived = <<>>
    /\ taken = <<>>
    /\ task_dones = 0
    /\ n_calls = 0

\* MachineState.product = None, and a node field that is not there.
NoProduct == "None"

NoStep == [node |-> "none", user_balance |-> 0, product |-> NoProduct, purchase |-> NoProduct]

\* MachineState() before the graph runs.
IdleGraph ==
    /\ node = "none"
    /\ amount = 0
    /\ purchase = NoProduct
    /\ user_balance = 0
    /\ product = NoProduct
    /\ last = NoStep
    /\ coins = <<>>

\* The approval demo before main() runs.
IdleApproval ==
    /\ a_pc = "none"
    /\ tool_calls = <<>>
    /\ next_call = 1
    /\ approvals = <<>>
    /\ results = <<>>
    /\ executions = <<>>

\* No UserProfile yet.
NoProfile == [username |-> <<>>, email |-> "", age |-> 0]

\* The validator demo before an agent run.
IdleValidator ==
    /\ v_pc = "none"
    /\ v_output = NoProfile
    /\ v_result = NoProfile
    /\ v_retries = 0

\* None of the demonstration programs runs.
IdleDemos == IdleBuffer /\ IdleGraph /\ IdleApproval /\ IdleValidator

\* No send is composed while multi_ainput or _rows_used is exercised alone.
IdleSend ==
    /\ sh_pc = "idle"
    /\ multiline = 0
    /\ content = <<>>
    /\ output = NoOutput
    /\ sent = HookNone

\* No session runs while _rows_used is exercised alone.
IdleSession ==
    /\ pc = "idle"
    /\ lines = <<>>
    /\ current_prompt = prompt
    /\ stdout = <<>>
    /\ flushed = 0
    /\ result = NotReturned
    /\ isatty = TRUE
    /\ reads = <<>>
    /\ redraws = <<>>

\* No call of _rows_used is exercised alone while a session runs.
IdleRows ==
    /\ rpc = "idle"
    /\ r_prompt = <<>>
    /\ r_text = <<>>
    /\ tabsize = DefaultTabsize
    /\ columns = 0
    /\ walk = StartOfWalk
    /\ idx = 1

\* The documented example of the wrap: 9 narrow characters and a wide one
\* on 10 columns.
ExampleText == <<"a", "a", "a", "a", "a", "a", "a", "a", "a", "WIDE">>

\* Four wide characters, for 3 columns: each needs a row of its own.
WideText == <<"WIDE", "WIDE", "WIDE", "WIDE">>

RowsInputs ==
    {[prompt |-> p, text |-> t, tabsize |-> ts, columns |-> c] :
        p \in StringsUpTo(RowChars, MaxPromptLen),
        t \in StringsUpTo(RowChars, MaxTextLen),
        ts \in TabSizes,
        c \in 0..MaxCols}
    \cup {[prompt |-> <<>>, text |-> ExampleText, tabsize |-> 8, columns |-> 10],
          [prompt |-> <<>>, text |-> WideText, tabsize |-> 8, columns |-> 3]}

InitRows ==
    /\ \E in \in RowsInputs :
          /\ r_prompt = in.prompt
          /\ r_text = in.text
          /\ tabsize = in.tabsize
          /\ columns = in.columns
    /\ rpc = "prompt"
    /\ walk = StartOfWalk
    /\ idx = 1
    /\ IdleSession
    /\ IdleSend
    /\ IdleDemos

\* for ch in prompt: ...
WalkPrompt ==
    /\ rpc = "prompt"
    /\ idx <= Len(r_prompt)
    /\ walk' = WalkChar(walk, r_prompt[idx], tabsize, ClampCols(columns))
    /\ idx' = idx + 1
    /\ rpc' = IF walk'.raised # "none" THEN "raised" ELSE "prompt"
    /\ UNCHANGED <<r_prompt, r_text, tabsize, columns>>
    /\ UNCHANGED svars
    /\ UNCHANGED hvars
    /\ UNCHANGED dvars

\* A slip: the column reset between the two loops.
EndPromptResetsColumn ==
    /\ rpc = "prompt"
    /\ idx > Len(r_prompt)
    /\ rpc' = "text"
    /\ idx' = 1
    /\ walk' = [walk EXCEPT !.col = 0]
    /\ UNCHANGED <<r_prompt, r_text, tabsize, columns>>
    /\ UNCHANGED svars
    /\ UNCHANGED hvars
    /\ UNCHANGED dvars

\* the prompt is exhausted: on to "for ch in text"
EndPrompt ==
    /\ rpc = "prompt"
    /\ idx > Len(r_prompt)
    /\ rpc' = "text"
    /\ idx' = 1
    /\ UNCHANGED <<r_prompt, r_text, tabsize, columns, walk>>
    /\ UNCHANGED svars
    /\ UNCHANGED hvars
    /\ UNCHANGED dvars

\* for ch in text: ...
WalkText ==
    /\ rpc = "text"
    /\ idx <= Len(r_text)
    /\ walk' = WalkChar(walk, r_text[idx], tabsize, ClampCols(columns))
    /\ idx' = idx + 1
    /\ rpc' = IF walk'.raised # "none" THEN "raised" ELSE "text"
    /\ UNCHANGED <<r_prompt, r_text, tabsize, columns>>
    /\ UNCHANGED svars
    /\ UNCHANGED hvars
    /\ UNCHANGED dvars

\* return rows
ReturnRows ==
    /\ rpc = "text"
    /\ idx > Len(r_text)
    /\ rpc' = "returned"
    /\ UNCHANGED <<r_prompt, r_text, tabsize, columns, walk, idx>>
    /\ UNCHANGED svars
    /\ UNCHANGED hvars
    /\ UNCHANGED dvars

NextRows == WalkPrompt \/ EndPrompt \/ WalkText \/ ReturnRows

SpecRows == InitRows /\ [][NextRows]_vars

\* ---------------------------------------------------------------- session

\* lines = []; current_prompt = prompt
Init ==
    /\ pc = "reading"
    /\ lines = <<>>
    /\ current_prompt = prompt
    /\ stdout = <<>>
    /\ flushed = 0
    /\ result = NotReturned
    /\ isatty \in BOOLEAN
    /\ reads = <<>>
    /\ redraws = <<>>
    /\ IdleRows
    /\ IdleSend
    /\ IdleDemos

\* ainput delivers a line that ends with the sentinel: the block is erased,
\* the line redrawn without it, and the loop goes on to the next read.
\* c is what the terminal reports as its columns when _rows_used asks.
ReadContinued ==
    /\ pc = "reading"
    /\ Len(lines) < MaxLines - 1
    /\ \E line \in TypedLines, c \in 0..MaxTermCols :
          /\ endswith(line, sentinel)
          /\ LET clean == line_clean(line)
                 used == _rows_used(current_prompt, line, DefaultTabsize, c)
                 writes == EraseWrites(used.rows) \o <<RedrawWrite(current_prompt, clean)>>
             IN  /\ used.raised = "none"
                 /\ lines' = Append(lines, clean)
                 /\ stdout' = stdout \o writes
                 /\ flushed' = Flush(stdout', flushed)
                 /\ reads' = Append(reads, [prompt |-> current_prompt, line |-> line])
                 /\ redraws' = Append(redraws,
                        [read |-> Len(reads) + 1, columns |-> c, rows |-> used.rows,
                         first |-> Len(stdout) + 1, last |-> Len(stdout')])
    /\ current_prompt' = cont_prompt
    /\ UNCHANGED <<pc, result, isatty>>
    /\ UNCHANGED rvars
    /\ UNCHANGED hvars
    /\ UNCHANGED dvars

\* A slip: no break after a line without the sentinel.
ReadLastKeepsReading ==
    /\ pc = "reading"
    /\ Len(lines) < MaxLines
    /\ \E line \in TypedLines :
          /\ ~endswith(line, sentinel)
          /\ lines' = Append(lines, line)
          /\ reads' = Append(reads, [prompt |-> current_prompt, line |-> line])
    /\ UNCHANGED <<pc, result, current_prompt, stdout, flushed, isatty, redraws>>
    /\ UNCHANGED rvars
    /\ UNCHANGED hvars
    /\ UNCHANGED dvars

\* ainput delivers a line that does not end with the sentinel: it is
\* appended as it is and the joined lines are returned.
ReadLast ==
    /\ pc = "reading"
    /\ \E line \in TypedLines :
          /\ ~endswith(line, sentinel)
          /\ lines' = Append(lines, line)
          /\ stdout' = stdout \o LastLineWrites(current_prompt, line)
          /\ reads' = Append(reads, [prompt |-> current_prompt, line |-> line])
    /\ result' = Returned(JoinLines(lines'))
    /\ pc' = "returned"
    /\ UNCHANGED <<current_prompt, flushed, isatty, redraws>>
    /\ UNCHANGED rvars
    /\ UNCHANGED hvars
    /\ UNCHANGED dvars

\* ainput raises instead of delivering a line.
ReadError ==
    /\ pc = "reading"
    /\ \E exc \in ReadErrors :
          LET out == OnReadError(exc, lines)
          IN  /\ pc' = out.pc
              /\ result' = out.result
    /\ UNCHANGED <<lines, current_prompt, stdout, flushed, isatty, reads, redraws>>
    /\ UNCHANGED rvars
    /\ UNCHANGED hvars
    /\ UNCHANGED dvars

Next == ReadContinued \/ ReadLast \/ ReadError

Spec == Init /\ [][Next]_vars

\* ------------------------------------------------------------------- send

\* The contents a compose delivers: one line from ainput, or lines joined
\* by multi_ainput.
Contents(mode) ==
    IF mode = 1
    THEN StringsUpTo(SendChars, MaxContentLen)
    ELSE StringsUpTo(SendChars \ {LF}, MaxContentLen)

InitSend ==
    /\ sh_pc = "awaiting"
    /\ multiline \in {0, 1}
    /\ content = <<>>
    /\ output = NoOutput
    /\ sent = HookNone
    /\ IdleRows
    /\ IdleSession
    /\ IdleDemos

\* The compose delivers the content; it is parsed, or kept, and returned.
SendCompose ==
    /\ sh_pc = "awaiting"
    /\ \E c \in Contents(multiline) :
          /\ content' = c
          /\ output' = SendOutput(c)
    /\ sh_pc' = "returned"
    /\ UNCHANGED <<multiline, sent>>
    /\ UNCHANGED <<rvars, svars>>
    /\ UNCHANGED dvars

\* The compose raises: the try block does not enclose the awaited read.
SendReadError ==
    /\ sh_pc = "awaiting"
    /\ sh_pc' = "read_error"
    /\ UNCHANGED <<multiline, content, output, sent>>
    /\ UNCHANGED <<rvars, svars>>
    /\ UNCHANGED dvars

\* The client passes what send_handler returned through the SEND hook.
SendHook ==
    /\ sh_pc = "returned"
    /\ sent' = add_sender_id(output)
    /\ sh_pc' = "hooked"
    /\ UNCHANGED <<multiline, content, output>>
    /\ UNCHANGED <<rvars, svars>>
    /\ UNCHANGED dvars

NextSend == SendCompose \/ SendReadError \/ SendHook

SpecSend == InitSend /\ [][NextSend]_vars

\* ----------------------------------------------------------------- buffer
\* summoner/2_structured_outputs.py: recv_message puts payloads in one
\* queue, send_message tasks take them.  A task is suspended only at an
\* await; the await of "async with buffer_lock" is taken as one, which
\* covers every event loop, also one that runs it through.

MaxArrivals == 3

MaxCalls == 4

Payloads == {"ping", "pong"}

\* message_buffer.get_nowait()
get_nowait(q) ==
    IF q = <<>>
    THEN [raised |-> "QueueEmpty", item |-> NoPayload, rest |-> q]
    ELSE [raised |-> "none", item |-> Head(q), rest |-> Tail(q)]

\* message_buffer.task_done(): ValueError when nothing is unfinished
task_done(n) ==
    IF n <= 0
    THEN [raised |-> "ValueError", unfinished |-> n]
    ELSE [raised |-> "none", unfinished |-> n - 1]

InitBuffer ==
    /\ IdleBuffer
    /\ IdleGraph
    /\ IdleApproval
    /\ IdleValidator
    /\ IdleRows
    /\ IdleSession
    /\ IdleSend

\* recv_message: await message_buffer.put(content) on an unbounded queue
RecvMessage ==
    /\ Len(arrived) < MaxArrivals
    /\ \E p \in Payloads :
          /\ message_buffer' = Append(message_buffer, p)
          /\ arrived' = Append(arrived, p)
    /\ unfinished' = unfinished + 1
    /\ UNCHANGED <<buffer_lock, b_pc, incoming, ret, exit_line, n_taken, taken,
                   task_dones, n_calls>>
    /\ UNCHANGED <<rvars, svars, hvars, gvars, avars, uvars>>

\* send_message is called: if message_buffer.empty(): await asyncio.sleep;
\* otherwise on to the lock.
SendCheck(t) ==
    /\ b_pc[t] = "ready"
    /\ n_calls < MaxCalls
    /\ n_calls' = n_calls + 1
    /\ b_pc' = [b_pc EXCEPT ![t] = IF message_buffer = <<>> THEN "sleeping" ELSE "acquiring"]
    /\ ret' = [ret EXCEPT ![t] = "pending"]
    /\ exit_line' = [exit_line EXCEPT ![t] = 0]
    /\ n_taken' = [n_taken EXCEPT ![t] = 0]
    /\ incoming' = [incoming EXCEPT ![t] = NoPayload]
    /\ UNCHANGED <<message_buffer, unfinished, buffer_lock, arrived, taken, task_dones>>
    /\ UNCHANGED <<rvars, svars, hvars, gvars, avars, uvars>>

\* the sleep is over: return None
SendSleepReturn(t) ==
    /\ b_pc[t] = "sleeping"
    /\ b_pc' = [b_pc EXCEPT ![t] = "ready"]
    /\ ret' = [ret EXCEPT ![t] = "None"]
    /\ exit_line' = [exit_line EXCEPT ![t] = 107]
    /\ UNCHANGED <<message_buffer, unfinished, buffer_lock, incoming, n_taken,
                   arrived, taken, task_dones, n_calls>>
    /\ UNCHANGED <<rvars, svars, hvars, gvars, avars, uvars>>

\* async with buffer_lock: the lock is acquired when it is free
SendAcquire(t) ==
    /\ b_pc[t] = "acquiring"
    /\ buffer_lock = NoSender
    /\ buffer_lock' = t
    /\ b_pc' = [b_pc EXCEPT ![t] = "locked"]
    /\ UNCHANGED <<message_buffer, unfinished, incoming, ret, exit_line, n_taken,
                   arrived, taken, task_dones, n_calls>>
    /\ UNCHANGED <<rvars, svars, hvars, gvars, avars, uvars>>

\* A slip: get_nowait without the second look at the queue.
SendTakeNoRecheck(t) ==
    /\ b_pc[t] = "locked"
    /\ LET g == get_nowait(message_buffer)
       IN  /\ message_buffer' = g.rest
           /\ incoming' = [incoming EXCEPT ![t] = g.item]
           /\ IF g.raised # "none"
              THEN /\ b_pc' = [b_pc EXCEPT ![t] = "ready"]
                   /\ ret' = [ret EXCEPT ![t] = g.raised]
                   /\ exit_line' = [exit_line EXCEPT ![t] = 112]
                   /\ UNCHANGED <<taken, n_taken>>
              ELSE /\ b_pc' = [b_pc EXCEPT ![t] = "calling"]
                   /\ taken' = Append(taken, g.item)
                   /\ n_taken' = [n_taken EXCEPT ![t] = @ + 1]
                   /\ UNCHANGED <<ret, exit_line>>
    /\ buffer_lock' = NoSender
    /\ UNCHANGED <<unfinished, arrived, task_dones, n_calls>>
    /\ UNCHANGED <<rvars, svars, hvars, gvars, avars, uvars>>

\* under the lock: if message_buffer.empty(): return None;
\* incoming = message_buffer.get_nowait(); the lock is released on the way
\* out of the block
SendTake(t) ==
    /\ b_pc[t] = "locked"
    /\ IF message_buffer = <<>>
       THEN /\ b_pc' = [b_pc EXCEPT ![t] = "ready"]
            /\ ret' = [ret EXCEPT ![t] = "None"]
            /\ exit_line' = [exit_line EXCEPT ![t] = 111]
            /\ UNCHANGED <<message_buffer, incoming, taken, n_taken>>
       ELSE LET g == get_nowait(message_buffer)
            IN  /\ message_buffer' = g.rest
                /\ incoming' = [incoming EXCEPT ![t] = g.item]
                /\ b_pc' = [b_pc EXCEPT ![t] = "calling"]
                /\ taken' = Append(taken, g.item)
                /\ n_taken' = [n_taken EXCEPT ![t] = @ + 1]
                /\ UNCHANGED <<ret, exit_line>>
    /\ buffer_lock' = NoSender
    /\ UNCHANGED <<unfinished, arrived, task_dones, n_calls>>
    /\ UNCHANGED <<rvars, svars, hvars, gvars, avars, uvars>>

\* the model call answers: return out, through the finally block
SendReply(t) ==
    /\ b_pc[t] = "calling"
    /\ b_pc' = [b_pc EXCEPT ![t] = "ready"]
    /\ ret' = [ret EXCEPT ![t] = "out"]
    /\ exit_line' = [exit_line EXCEPT ![t] = 151]
    /\ unfinished' = task_done(unfinished).unfinished
    /\ task_dones' = task_dones + 1
    /\ UNCHANGED <<message_buffer, buffer_lock, incoming, n_taken, arrived, taken, n_calls>>
    /\ UNCHANGED <<rvars, svars, hvars, gvars, avars, uvars>>

\* the model call raises: the finally block runs, the exception leaves
SendFail(t) ==
    /\ b_pc[t] = "calling"
    /\ b_pc' = [b_pc EXCEPT ![t] = "ready"]
    /\ ret' = [ret EXCEPT ![t] = "APIError"]
    /\ exit_line' = [exit_line EXCEPT ![t] = 128]
    /\ unfinished' = task_done(unfinished).unfinished
    /\ task_dones' = task_dones + 1
    /\ UNCHANGED <<message_buffer, buffer_lock, incoming, n_taken, arrived, taken, n_calls>>
    /\ UNCHANGED <<rvars, svars, hvars, gvars, avars, uvars>>

NextBuffer ==
    \/ RecvMessage
    \/ \E t \in Senders : SendCheck(t)
    \/ \E t \in Senders : SendSleepReturn(t)
    \/ \E t \in Senders : SendAcquire(t)
    \/ \E t \in Senders : SendTake(t)
    \/ \E t \in Senders : SendReply(t)
    \/ \E t \in Senders : SendFail(t)

SpecBuffer == InitBuffer /\ [][NextBuffer]_vars

\* ------------------------------------------------------------------ graph
\* pydantic-ai/09_stateful_graphs.py: the vending machine.  Amounts are in
\* cents: the prices and the coins drawn are multiples of 0.25, which
\* float arithmetic adds, subtracts and compares exactly.

MaxBalance == 400

MaxCoins == 3

PRODUCTS == [water |-> 125, soda |-> 150, crisps |-> 175, chocolate |-> 200]

\* What the user may answer to "Insert coins" and to "Select product".
CoinAnswers == {-100, 0, 25, 100, 200}

ProductAnswers == DOMAIN PRODUCTS \cup {"gum"}

\* PRODUCTS.get(name): the price, or None (0 here, falsy as None is)
products_get(name) == IF name \in DOMAIN PRODUCTS THEN PRODUCTS[name] ELSE 0

\* The node about to run, with what it starts from.
ThisStep == [node |-> node, user_balance |-> user_balance, product |-> product,
             purchase |-> purchase]

\* vending_machine_graph.run(InsertCoin(), state=MachineState())
InitGraph ==
    /\ node = "InsertCoin"
    /\ amount = 0
    /\ purchase = NoProduct
    /\ user_balance = 0
    /\ product = NoProduct
    /\ last = NoStep
    /\ coins = <<>>
    /\ IdleBuffer
    /\ IdleApproval
    /\ IdleValidator
    /\ IdleRows
    /\ IdleSession
    /\ IdleSend

\* InsertCoin.run: return CoinsInserted(float(Prompt.ask("Insert coins")))
InsertCoin ==
    /\ node = "InsertCoin"
    /\ Len(coins) < MaxCoins
    /\ \E c \in CoinAnswers :
          /\ user_balance + c <= MaxBalance
          /\ user_balance + c >= -MaxBalance
          /\ amount' = c
          /\ coins' = Append(coins, c)
    /\ node' = "CoinsInserted"
    /\ last' = ThisStep
    /\ UNCHANGED <<purchase, user_balance, product>>
    /\ UNCHANGED <<rvars, svars, hvars, bvars, avars, uvars>>

\* InsertCoin.run: the answer is no number, float() raises
InsertCoinNoNumber ==
    /\ node = "InsertCoin"
    /\ node' = "ValueError"
    /\ last' = ThisStep
    /\ UNCHANGED <<amount, purchase, user_balance, product, coins>>
    /\ UNCHANGED <<rvars, svars, hvars, bvars, avars, uvars>>

\* CoinsInserted.run
CoinsInserted ==
    /\ node = "CoinsInserted"
    /\ user_balance' = user_balance + amount
    /\ IF product # NoProduct
       THEN node' = "Purchase" /\ purchase' = product
       ELSE node' = "SelectProduct" /\ purchase' = NoProduct
    /\ amount' = 0
    /\ last' = ThisStep
    /\ UNCHANGED <<product, coins>>
    /\ UNCHANGED <<rvars, svars, hvars, bvars, avars, uvars>>

\* SelectProduct.run: return Purchase(Prompt.ask("Select product"))
SelectProduct ==
    /\ node = "SelectProduct"
    /\ \E name \in ProductAnswers : purchase' = name
    /\ node' = "Purchase"
    /\ last' = ThisStep
    /\ UNCHANGED <<amount, user_balance, product, coins>>
    /\ UNCHANGED <<rvars, svars, hvars, bvars, avars, uvars>>

\* A slip: the product is not stored when the funds do not suffice.
PurchaseForgetsProduct ==
    /\ node = "Purchase"
    /\ LET price == products_get(purchase)
       IN  IF price # 0
           THEN IF user_balance >= price
                THEN /\ product' = purchase
                     /\ user_balance' = user_balance - price
                     /\ node' = "End"
                ELSE /\ node' = "InsertCoin"
                     /\ UNCHANGED <<user_balance, product>>
           ELSE /\ node' = "SelectProduct"
                /\ UNCHANGED <<user_balance, product>>
    /\ purchase' = NoProduct
    /\ last' = ThisStep
    /\ UNCHANGED <<amount, coins>>
    /\ UNCHANGED <<rvars, svars, hvars, bvars, avars, uvars>>

\* A slip: the price is taken whatever the balance.
PurchaseOnCredit ==
    /\ node = "Purchase"
    /\ LET price == products_get(purchase)
       IN  IF price # 0
           THEN /\ product' = purchase
                /\ user_balance' = user_balance - price
                /\ node' = "End"
           ELSE /\ node' = "SelectProduct"
                /\ UNCHANGED <<user_balance, product>>
    /\ purchase' = NoProduct
    /\ last' = ThisStep
    /\ UNCHANGED <<amount, coins>>
    /\ UNCHANGED <<rvars, svars, hvars, bvars, avars, uvars>>

\* Purchase.run
Purchase ==
    /\ node = "Purchase"
    /\ LET price == products_get(purchase)
       IN  IF price # 0
           THEN /\ product' = purchase
                /\ IF user_balance >= price
                   THEN /\ user_balance' = user_balance - price
                        /\ node' = "End"
                   ELSE /\ node' = "InsertCoin"
                        /\ UNCHANGED user_balance
           ELSE /\ node' = "SelectProduct"
                /\ UNCHANGED <<user_balance, product>>
    /\ purchase' = NoProduct
    /\ last' = ThisStep
    /\ UNCHANGED <<amount, coins>>
    /\ UNCHANGED <<rvars, svars, hvars, bvars, avars, uvars>>

NextGraph == InsertCoin \/ InsertCoinNoNumber \/ CoinsInserted \/ SelectProduct \/ Purchase

SpecGraph == InitGraph /\ [][NextGraph]_vars

\* --------------------------------------------------------------- approval
\* pydantic-ai/10_human_in_the_loop.py.  The first agent.run executes the
\* tool calls of the model and defers those that need approval; main
\* decides on each deferred call; the second agent.run executes the
\* approved ones, with ctx.tool_call_approved set.

MaxToolCalls == 3

PROTECTED_FILES == {".env", "config.yml", "secrets.json"}

Files == {"README.md", ".env", "temp.log"}

Tools == {"read_file", "delete_file"}

ToolCalls == [tool_name : Tools, filename : Files]

NoContent == <<>>

\* A slip: read_file without the approval test.
read_file_unguarded(filename, tool_call_approved) ==
    [raised |-> "none", value |-> <<"Updated", filename>>]

\* read_file(ctx, filename), with ctx.tool_call_approved
read_file(filename, tool_call_approved) ==
    IF filename \in PROTECTED_FILES /\ ~tool_call_approved
    THEN [raised |-> "ApprovalRequired", value |-> NoContent]
    ELSE [raised |-> "none", value |-> <<"Updated", filename>>]

\* delete_file(filename)
delete_file(filename) == [raised |-> "none", value |-> <<"Deleted", filename>>]

\* One run of a tool function, as the history keeps it.
Execution(id, call, approved, r) ==
    [id |-> id, tool_name |-> call.tool_name, filename |-> call.filename,
     approved |-> approved, raised |-> r.raised, value |-> r.value]

\* result = await agent.run("Read the README.md file, ...")
InitApproval ==
    /\ a_pc = "run1"
    /\ tool_calls \in UNION {[1..n -> ToolCalls] : n \in 0..MaxToolCalls}
    /\ next_call = 1
    /\ approvals = <<>>
    /\ results = [i \in 1..Len(tool_calls) |-> "unset"]
    /\ executions = <<>>
    /\ IdleBuffer
    /\ IdleGraph
    /\ IdleValidator
    /\ IdleRows
    /\ IdleSession
    /\ IdleSend

\* first run, one tool call: read_file runs unapproved and is deferred
\* when it raises ApprovalRequired; delete_file (requires_approval=True)
\* is deferred without running
FirstRunCall ==
    /\ a_pc = "run1"
    /\ next_call <= Len(tool_calls)
    /\ LET call == tool_calls[next_call]
           r == read_file(call.filename, FALSE)
       IN  IF call.tool_name = "read_file"
           THEN /\ executions' = Append(executions, Execution(next_call, call, FALSE, r))
                /\ approvals' = IF r.raised = "ApprovalRequired"
                                THEN Append(approvals, next_call) ELSE approvals
           ELSE /\ approvals' = Append(approvals, next_call)
                /\ UNCHANGED executions
    /\ next_call' = next_call + 1
    /\ UNCHANGED <<a_pc, tool_calls, results>>
    /\ UNCHANGED <<rvars, svars, hvars, bvars, gvars, uvars>>

\* requests = result.output: the deferred requests, or a str without
\* .approvals when nothing was deferred
FirstRunEnds ==
    /\ a_pc = "run1"
    /\ next_call > Len(tool_calls)
    /\ a_pc' = IF approvals = <<>> THEN "AttributeError" ELSE "deciding"
    /\ next_call' = 1
    /\ UNCHANGED <<tool_calls, approvals, results, executions>>
    /\ UNCHANGED <<rvars, svars, hvars, bvars, gvars, uvars>>

\* The body of "for call in requests.approvals": read_file is approved,
\* after the "Denied" message when the file is protected; delete_file is
\* denied; any other tool is left undecided.
HumanDecision(call) ==
    IF call.tool_name = "read_file" THEN "ToolApproved"
    ELSE IF call.tool_name = "delete_file" THEN "ToolDenied"
    ELSE "unset"

\* for call in requests.approvals: one iteration
Decide ==
    /\ a_pc = "deciding"
    /\ next_call <= Len(approvals)
    /\ LET id == approvals[next_call]
       IN  results' = [results EXCEPT ![id] = HumanDecision(tool_calls[id])]
    /\ next_call' = next_call + 1
    /\ UNCHANGED <<a_pc, tool_calls, approvals, executions>>
    /\ UNCHANGED <<rvars, svars, hvars, bvars, gvars, uvars>>

\* the loop is over: agent.run(message_history=..., deferred_tool_results=results)
DecisionsEnd ==
    /\ a_pc = "deciding"
    /\ next_call > Len(approvals)
    /\ a_pc' = "run2"
    /\ next_call' = 1
    /\ UNCHANGED <<tool_calls, approvals, results, executions>>
    /\ UNCHANGED <<rvars, svars, hvars, bvars, gvars, uvars>>

\* second run, one deferred call: an approved call runs its tool with
\* ctx.tool_call_approved set; a denied one does not run
SecondRunCall ==
    /\ a_pc = "run2"
    /\ next_call <= Len(approvals)
    /\ LET id == approvals[next_call]
           call == tool_calls[id]
           r == IF call.tool_name = "read_file"
                THEN read_file(call.filename, TRUE)
                ELSE delete_file(call.filename)
       IN  executions' = IF results[id] = "ToolApproved"
                         THEN Append(executions, Execution(id, call, TRUE, r))
                         ELSE executions
    /\ next_call' = next_call + 1
    /\ UNCHANGED <<a_pc, tool_calls, approvals, results>>
    /\ UNCHANGED <<rvars, svars, hvars, bvars, gvars, uvars>>

\* the second run returns final_result
SecondRunEnds ==
    /\ a_pc = "run2"
    /\ next_call > Len(approvals)
    /\ a_pc' = "done"
    /\ UNCHANGED <<tool_calls, next_call, approvals, results, executions>>
    /\ UNCHANGED <<rvars, svars, hvars, bvars, gvars, uvars>>

NextApproval ==
    \/ FirstRunCall
    \/ FirstRunEnds
    \/ Decide
    \/ DecisionsEnd
    \/ SecondRunCall
    \/ SecondRunEnds

SpecApproval == InitApproval /\ [][NextApproval]_vars

\* -------------------------------------------------------------- validator
\* pydantic-ai/05_output_validators.py: validate_user_profile, run by the
\* agent on every UserProfile the model proposes; ModelRetry makes the
\* agent ask the model again.  A username is a sequence of letters.

MaxRetries == 1

existing_usernames == {<<"a", "d", "m", "i", "n">>, <<"u", "s", "e", "r">>, <<"t", "e", "s", "t">>}

existing_emails == {"admin@test.com", "user@test.com"}

\* What the model may propose.
ProposedUsernames ==
    existing_usernames \cup
    {<<"A", "d", "m", "i", "n">>, <<"A", "D", "M", "I", "N">>, <<"T", "e", "s", "t">>,
     <<"n", "e", "w", "u", "s", "e", "r">>, <<"N", "e", "w", "U", "s", "e", "r">>}

ProposedEmails == existing_emails \cup {"new@example.com", "fresh@example.com"}

ProposedAges == {25, 30}

UserProfile == [username : ProposedUsernames, email : ProposedEmails, age : ProposedAges]

\* str.lower(), letter by letter
lower_letter(ch) ==
    CASE ch = "A" -> "a"
      [] ch = "D" -> "d"
      [] ch = "I" -> "i"
      [] ch = "M" -> "m"
      [] ch = "N" -> "n"
      [] ch = "T" -> "t"
      [] ch = "U" -> "u"
      [] OTHER -> ch

lower(str) == [i \in 1..Len(str) |-> lower_letter(str[i])]

\* validate_user_profile(ctx, output)
validate_user_profile(profile) ==
    IF lower(profile.username) \in existing_usernames
    THEN [raised |-> "ModelRetry", value |-> NoProfile]
    ELSE [raised |-> "none", value |-> profile]

\* agent.run_sync(...)
InitValidator ==
    /\ v_pc = "asking"
    /\ v_output = NoProfile
    /\ v_result = NoProfile
    /\ v_retries = 0
    /\ IdleBuffer
    /\ IdleGraph
    /\ IdleApproval
    /\ IdleRows
    /\ IdleSession
    /\ IdleSend

\* the model proposes a UserProfile
Propose ==
    /\ v_pc = "asking"
    /\ v_output' \in UserProfile
    /\ v_pc' = "validating"
    /\ UNCHANGED <<v_result, v_retries>>
    /\ UNCHANGED <<rvars, svars, hvars, bvars, gvars, avars>>

\* the agent runs validate_user_profile on the proposal
Validate ==
    /\ v_pc = "validating"
    /\ LET r == validate_user_profile(v_output)
       IN  /\ v_pc' = IF r.raised = "none" THEN "returned" ELSE r.raised
           /\ v_result' = r.value
    /\ UNCHANGED <<v_output, v_retries>>
    /\ UNCHANGED <<rvars, svars, hvars, bvars, gvars, avars>>

\* ModelRetry: the agent asks the model again
Retry ==
    /\ v_pc = "ModelRetry"
    /\ v_retries < MaxRetries
    /\ v_retries' = v_retries + 1
    /\ v_pc' = "asking"
    /\ UNCHANGED <<v_output, v_result>>
    /\ UNCHANGED <<rvars, svars, hvars, bvars, gvars, avars>>

NextValidator == Propose \/ Validate \/ Retry

SpecValidator == InitValidator /\ [][NextValidator]_vars

\* ------------------------------------------------------------------ claims

\* The characters of width 1 among those _rows_used is exercised with.
Width1Only(s) == \A i \in 1..Len(s) : s[i] \notin {TAB, "WIDE", "COMB", "BEL"}

CeilDiv(n, c) == (n + c - 1) \div c

\* C1: on C >= 1 columns, for a prompt and a text of width-1 printable
\* characters only, _rows_used returns
\* max(1, ceil((len(prompt) + len(text)) / C)).
C1_RowsAreCeiling ==
    (rpc = "returned" /\ columns >= 1 /\ Width1Only(r_prompt) /\ Width1Only(r_text))
        => walk.rows = max(1, CeilDiv(Len(r_prompt) + Len(r_text), columns))

\* C2: when the output sink is not an interactive terminal, multi_ainput
\* writes nothing for a continued line: no cursor-up, cursor-down or
\* clear-line sequence and no replacement line.
C2_NoRedrawOffTerminal == ~isatty => stdout = <<>>

\* s with every tab replaced by a width-1 character.
TabsAsNarrow(s) == [i \in 1..Len(s) |-> IF s[i] = TAB THEN "a" ELSE s[i]]

\* C3: with a tab size <= 0 every tab advances the column by exactly 1, so
\* _rows_used returns the row count it returns with every tab replaced by
\* a width-1 character.
C3_NonPositiveTabIsOneColumn ==
    (rpc \in {"returned", "raised"} /\ tabsize <= 0)
        => /\ rpc = "returned"
           /\ walk.rows = _rows_used(TabsAsNarrow(r_prompt), TabsAsNarrow(r_text),
                                     tabsize, columns).rows

\* C4: _rows_used is total with a result >= 1: for every prompt, text,
\* terminal width and tab size it raises nothing and returns rows >= 1.
C4_RowsUsedTotal ==
    /\ rpc # "raised"
    /\ walk.raised = "none"
    /\ rpc = "returned" => walk.rows >= 1

\* What the claims expect of a session, from the lines as they were read.
ExpectedContent(i) ==
    LET l == reads[i].line
    IN  IF i < Len(reads) THEN [k \in 1..(Len(l) - 1) |-> l[k]] ELSE l

RECURSIVE ExpectedJoin(_)
ExpectedJoin(n) ==
    IF n = 0 THEN <<>>
    ELSE IF n = 1 THEN ExpectedContent(1)
    ELSE ExpectedJoin(n - 1) \o <<LF>> \o ExpectedContent(n)

\* C5: fed k lines that end with the sentinel and then one that does not,
\* multi_ainput returns the k+1 contents in the order read joined by line
\* breaks, each of the first k without its one trailing sentinel (sentinels
\* elsewhere are kept) and the last unchanged.
C5_JoinedInOrder ==
    pc = "returned"
        => /\ result.returned
           /\ \A i \in 1..(Len(reads) - 1) : reads[i].line[Len(reads[i].line)] = "\\"
           /\ result.value = ExpectedJoin(Len(reads))
           /\ (Len(reads) = 2 /\ reads[1].line = HelloLine /\ reads[2].line = WorldLine)
                 => result.value = <<"h", "e", "l", "l", "o", " ", LF, "w", "o", "r", "l", "d">>

C5_Witness ==
    /\ pc = "returned"
    /\ Len(reads) = 3
    /\ reads[1].line = <<"\\", "\\">>
    /\ reads[2].line = HelloLine
    /\ reads[3].line = WorldLine
    /\ result.value = <<"\\", LF, "h", "e", "l", "l", "o", " ", LF, "w", "o", "r", "l", "d">>

\* C6: when a read delivers no line (the stream closes, or the call is
\* cancelled), multi_ainput ends in failure and returns no message, neither
\* the empty string nor the join of the lines accumulated so far.
C6_NoMessageOnReadError ==
    /\ pc \in ReadErrors => ~result.returned
    /\ result.returned
          => /\ pc = "returned"
             /\ reads # <<>>
             /\ ~endswith(reads[Len(reads)].line, sentinel)

C6_Witness ==
    /\ pc = "EOFError"
    /\ Len(lines) = 2
    /\ result = NotReturned

\* The bytes of a sequence of writes.
RECURSIVE Flatten(_)
Flatten(ws) == IF ws = <<>> THEN <<>> ELSE Head(ws) \o Flatten(Tail(ws))

\* The writes of the j-th redraw before its replacement line, and the
\* replacement line.
EraseOf(j) == SubSeq(stdout, redraws[j].first, redraws[j].last - 1)

ReplacementOf(j) == stdout[redraws[j].last]

RECURSIVE Repeat(_, _)
Repeat(s, k) == IF k <= 0 THEN <<>> ELSE s \o Repeat(s, k - 1)

CursorUpBytes(n) == <<ESC, "[">> \o FormatInt(n) \o <<"A">>

ClearAndDownBytes == <<CR, ESC, "[", "2", "K", ESC, "[", "1", "B">>

ClearBytes == <<CR, ESC, "[", "2", "K">>

\* C7, as claimed: before the replacement of a block of n rows the output is
\* ESC[nA, then n times (CR, ESC[2K) with ESC[1B after each but the last,
\* then ESC[(n-1)A, for every n >= 1.
C7_EraseBytesAsClaimed ==
    \A j \in 1..Len(redraws) :
        LET n == redraws[j].rows
        IN  Flatten(EraseOf(j)) =
                CursorUpBytes(n) \o Repeat(ClearAndDownBytes, n - 1) \o ClearBytes
                \o CursorUpBytes(n - 1)

\* C7, amended: the closing ESC[(n-1)A is written for n >= 2 only; for
\* n = 1 the output is ESC[1A, CR, ESC[2K.
C7_EraseBytes ==
    \A j \in 1..Len(redraws) :
        LET n == redraws[j].rows
        IN  /\ n >= 1
            /\ Flatten(EraseOf(j)) =
                CursorUpBytes(n) \o Repeat(ClearAndDownBytes, n - 1) \o ClearBytes
                \o (IF n >= 2 THEN CursorUpBytes(n - 1) ELSE <<>>)

C7_Witness ==
    /\ \E j \in 1..Len(redraws) :
          /\ redraws[j].rows = 3
          /\ Flatten(EraseOf(j)) =
                <<ESC, "[", "3", "A", CR, ESC, "[", "2", "K", ESC, "[", "1", "B",
                  CR, ESC, "[", "2", "K", ESC, "[", "1", "B",
                  CR, ESC, "[", "2", "K", ESC, "[", "2", "A">>
    /\ \E j \in 1..Len(redraws) : redraws[j].rows = 1

\* A terminal reading the writes: ESC[nA and ESC[nB move the cursor n rows
\* up and down, CR ESC[2K clears the row the cursor is on.  Rows are counted
\* from the first row of the echoed block.
RECURSIVE ParseInt(_)
ParseInt(ds) ==
    IF ds = <<>> THEN 0
    ELSE 10 * ParseInt(SubSeq(ds, 1, Len(ds) - 1))
         + (CHOOSE d \in 0..9 : DigitChars[d + 1] = ds[Len(ds)])

TerminalWrite(t, w) ==
    IF w = ClearBytes THEN [row |-> t.row, cleared |-> t.cleared \cup {t.row}]
    ELSE IF w[Len(w)] = "A"
         THEN [row |-> t.row - ParseInt(SubSeq(w, 3, Len(w) - 1)), cleared |-> t.cleared]
    ELSE IF w[Len(w)] = "B"
         THEN [row |-> t.row + ParseInt(SubSeq(w, 3, Len(w) - 1)), cleared |-> t.cleared]
    ELSE t

RECURSIVE TerminalAfter(_, _)
TerminalAfter(t, ws) ==
    IF ws = <<>> THEN t ELSE TerminalAfter(TerminalWrite(t, Head(ws)), Tail(ws))

\* The rows n width-1 characters occupy on c columns.
RowsOccupied(n, c) == max(1, CeilDiv(n, c))

\* C8: for every continued line, with the cursor on the row just after the
\* echoed block when the erase starts and the width that of the echo, the
\* rows cleared are exactly the rows "<prompt><line as typed>" occupied, and
\* the cursor is on the block's first row when the replacement is written.
C8_ExactlyTheBlockCleared ==
    \A j \in 1..Len(redraws) :
        LET rd == reads[redraws[j].read]
            c == redraws[j].columns
            occ == RowsOccupied(Len(rd.prompt) + Len(rd.line), c)
            t == TerminalAfter([row |-> occ, cleared |-> {}], EraseOf(j))
        IN  c >= 1 => t.cleared = 0..(occ - 1) /\ t.row = 0

\* C9: a line that does not end with the sentinel triggers no erase and no
\* redraw: the redraws are those of the continued lines, nothing else is
\* written, and a session fed one such line returns it and writes nothing.
C9_RedrawsAreContinuedLines ==
    /\ Len(redraws) = Cardinality({i \in 1..Len(reads) : endswith(reads[i].line, sentinel)})
    /\ \A j \in 1..Len(redraws) :
          /\ endswith(reads[redraws[j].read].line, sentinel)
          /\ redraws[j].first = (IF j = 1 THEN 1 ELSE redraws[j - 1].last + 1)
    /\ Len(stdout) = (IF redraws = <<>> THEN 0 ELSE redraws[Len(redraws)].last)
    /\ (pc = "returned" /\ Len(reads) = 1)
          => stdout = <<>> /\ result = Returned(reads[1].line)

C9_Witness ==
    /\ pc = "returned"
    /\ Len(reads) = 3
    /\ Len(redraws) = 2
    /\ ~endswith(reads[3].line, sentinel)
    /\ Len(stdout) = redraws[2].last

\* C10: eager wrap.  When advancing by a character gives a new column >= the
\* width C, rows grows by floor(newColumn / C) and the column becomes
\* newColumn mod C; otherwise rows is unchanged and the column becomes
\* newColumn.  On 10 columns, 9 width-1 characters and one width-2
\* character after an empty prompt give 2.
C10_EagerWrap ==
    /\ [][(rpc \in {"prompt", "text"} /\ idx' = idx + 1 /\ walk'.raised = "none")
            => LET s == IF rpc = "prompt" THEN r_prompt ELSE r_text
                   newColumn == _advance(walk.col, s[idx], tabsize).col
                   C == ClampCols(columns)
               IN  IF newColumn >= C
                   THEN /\ walk'.rows = walk.rows + (newColumn \div C)
                        /\ walk'.col = newColumn % C
                   ELSE /\ walk'.rows = walk.rows
                        /\ walk'.col = newColumn]_vars
    /\ []((rpc = "returned" /\ r_prompt = <<>> /\ r_text = ExampleText /\ columns = 10)
            => walk.rows = 2)

C10_Witness ==
    /\ rpc = "returned"
    /\ r_prompt = <<>>
    /\ r_text = ExampleText
    /\ columns = 10
    /\ walk.rows = 2
    /\ walk.col = 1

\* C11: the first line is read with the primary prompt and every later
\* line with the continuation prompt; the session keeps reading while each
\* line read ends with the sentinel and finishes at the first line that
\* does not, with no read after it.
C11_ReadsUntilFirstPlainLine ==
    /\ \A i \in 1..Len(reads) :
          reads[i].prompt = (IF i = 1 THEN <<">", " ">> ELSE <<"~", " ">>)
    /\ \A i \in 1..(Len(reads) - 1) : endswith(reads[i].line, sentinel)
    /\ pc = "returned" <=> (reads # <<>> /\ ~endswith(reads[Len(reads)].line, sentinel))
    /\ pc = "reading" => current_prompt = (IF reads = <<>> THEN <<">", " ">> ELSE <<"~", " ">>)

C11_Witness ==
    /\ pc = "returned"
    /\ Len(reads) = 3
    /\ reads[1] = [prompt |-> <<">", " ">>, line |-> <<"a", "\\">>]
    /\ reads[2] = [prompt |-> <<"~", " ">>, line |-> <<"\\">>]
    /\ reads[3] = [prompt |-> <<"~", " ">>, line |-> <<"a">>]

\* C12: every write made for a continued line, erase and replacement, is
\* flushed before the next read is issued: no read starts, and the session
\* does not end, with a write still unflushed.
C12_FlushedBeforeNextRead == flushed = Len(stdout)

C12_Witness ==
    /\ pc = "reading"
    /\ Len(redraws) = 2
    /\ flushed = redraws[2].last
    /\ flushed > 0

\* C13: the replacement written after the erase is the prompt of that read
\* (primary for the first line, continuation for the later ones), the line
\* without its one trailing sentinel and one line terminator: the trailing
\* sentinel is not redrawn, and the redrawn line ends with a backslash only
\* when the line was typed with a second one before the sentinel.
C13_Replacement ==
    \A j \in 1..Len(redraws) :
        LET rd == reads[redraws[j].read]
            w == ReplacementOf(j)
            n == Len(rd.line)
        IN  /\ w = (IF redraws[j].read = 1 THEN <<">", " ">> ELSE <<"~", " ">>)
                   \o [k \in 1..(n - 1) |-> rd.line[k]] \o <<LF>>
            /\ w[Len(w)] = LF
            /\ w[Len(w) - 1] = "\\" <=> (n >= 2 /\ rd.line[n - 1] = "\\")

C13_Witness ==
    /\ Len(redraws) = 2
    /\ reads[1].line = <<"\\", "\\">>
    /\ ReplacementOf(1) = <<">", " ", "\\", LF>>
    /\ reads[2].line = <<"a", "\\">>
    /\ ReplacementOf(2) = <<"~", " ", "a", LF>>

\* C14: a line consisting of only the sentinel does not fault: it adds one
\* empty content segment, is erased and redrawn like any continued line,
\* and the next line is read with the continuation prompt.
C14_LoneSentinelContinues ==
    \A i \in 1..Len(reads) :
        reads[i].line = <<"\\">>
            => /\ i <= Len(lines)
               /\ lines[i] = <<>>
               /\ \E j \in 1..Len(redraws) :
                     /\ redraws[j].read = i
                     /\ ReplacementOf(j) = reads[i].prompt \o <<LF>>
               /\ i < Len(reads) => reads[i + 1].prompt = <<"~", " ">>
               /\ i = Len(reads) =>
                     /\ pc \in {"reading"} \cup ReadErrors
                     /\ current_prompt = <<"~", " ">>

C14_Witness ==
    /\ pc = "returned"
    /\ Len(reads) = 2
    /\ reads[1].line = <<"\\">>
    /\ lines = << <<>>, <<"a">> >>
    /\ result.value = <<LF, "a">>
    /\ reads[2].prompt = <<"~", " ">>

\* Whether a write is a cursor-up or a cursor-down sequence, and its count.
IsCursorMove(w) ==
    /\ Len(w) >= 3
    /\ w[1] = ESC
    /\ w[2] = "["
    /\ w[Len(w)] \in {"A", "B"}

MoveDigits(w) == SubSeq(w, 3, Len(w) - 1)

\* C15: every cursor-up or cursor-down sequence multi_ainput writes carries
\* a count >= 1: the row count is at least 1 and no ESC[0A closes the erase
\* of a block of one row.
C15_MovesByAtLeastOne ==
    /\ \A i \in 1..Len(stdout) :
          IsCursorMove(stdout[i])
              => /\ MoveDigits(stdout[i]) # <<>>
                 /\ \A k \in 1..Len(MoveDigits(stdout[i])) :
                       MoveDigits(stdout[i])[k] \in {DigitChars[d] : d \in 1..10}
                 /\ ParseInt(MoveDigits(stdout[i])) >= 1
    /\ \A j \in 1..Len(redraws) : redraws[j].rows >= 1

C15_Witness ==
    /\ Len(redraws) = 2
    /\ redraws[1].rows = 1
    /\ EraseOf(1) = << <<ESC, "[", "1", "A">>, <<CR, ESC, "[", "2", "K">> >>
    /\ redraws[2].rows = 2
    /\ stdout[redraws[2].last - 1] = <<ESC, "[", "1", "A">>

\* The display width of a character: 2 for a wide one, 0 for a combining
\* mark and for a character of undefined or negative width, 1 otherwise.
DisplayWidth(ch) ==
    CASE ch = "WIDE" -> 2
      [] ch \in {"COMB", "BEL"} -> 0
      [] OTHER -> 1

\* C16: with a tab size > 0 a tab moves the column to the smallest multiple
\* of the tab size strictly greater than the current column, and any other
\* character advances the column by its display width, an undefined or
\* negative width counting as 0.  The column reached is read off the step:
\* the rows gained times the width, plus the new column.
C16_AdvanceRule ==
    [][(rpc \in {"prompt", "text"} /\ idx' = idx + 1 /\ tabsize > 0)
        => LET s == IF rpc = "prompt" THEN r_prompt ELSE r_text
               ch == s[idx]
               C == ClampCols(columns)
               reached == (walk'.rows - walk.rows) * C + walk'.col
           IN  /\ walk'.raised = "none"
               /\ IF ch = TAB
                  THEN /\ reached % tabsize = 0
                       /\ reached > walk.col
                       /\ reached - tabsize <= walk.col
                  ELSE reached = walk.col + DisplayWidth(ch)]_vars

C16_Witness ==
    /\ rpc = "returned"
    /\ r_prompt = <<"BEL">>
    /\ r_text = <<"a", TAB>>
    /\ tabsize = 2
    /\ columns = 3
    /\ walk.rows = 1
    /\ walk.col = 2

\* A renderer that never splits a wide character: a width-2 character that
\* does not fit in the columns left on the row goes whole to the start of
\* the next row.  RefChar counts the row after a row filled to its last
\* column as soon as the row is full, as _rows_used does; RefCharLate counts
\* it only when a character is placed on it, as a terminal does.
RefChar(st, ch, C) ==
    LET w == DisplayWidth(ch)
        placed == IF w = 2 /\ st.col + 2 > C
                  THEN [rows |-> st.rows + 1, col |-> 2]
                  ELSE [rows |-> st.rows, col |-> st.col + w]
    IN  IF placed.col >= C
        THEN [rows |-> placed.rows + 1, col |-> 0]
        ELSE placed

RECURSIVE RefWalk(_, _, _)
RefWalk(st, s, C) ==
    IF s = <<>> THEN st ELSE RefWalk(RefChar(st, Head(s), C), Tail(s), C)

RefRows(s, C) == RefWalk([rows |-> 1, col |-> 0], s, C).rows

RefCharLate(st, ch, C) ==
    LET w == DisplayWidth(ch)
    IN  IF st.col + w > C
        THEN [rows |-> st.rows + 1, col |-> w]
        ELSE [rows |-> st.rows, col |-> st.col + w]

RECURSIVE RefWalkLate(_, _, _)
RefWalkLate(st, s, C) ==
    IF s = <<>> THEN st ELSE RefWalkLate(RefCharLate(st, Head(s), C), Tail(s), C)

RefRowsLate(s, C) == RefWalkLate([rows |-> 1, col |-> 0], s, C).rows

NarrowOrWide(s) == \A i \in 1..Len(s) : s[i] \in {"a", "WIDE"}

\* C19: _rows_used never splits a wide character across a row boundary: for
\* every prompt and text of width-1 and width-2 characters on 2 columns or
\* more it returns the row count of that renderer, whichever way the
\* renderer counts the row after a full one.
C19_NeverSplitsWide ==
    (rpc = "returned" /\ columns >= 2 /\ NarrowOrWide(r_prompt) /\ NarrowOrWide(r_text))
        => walk.rows \in {RefRows(r_prompt \o r_text, columns),
                          RefRowsLate(r_prompt \o r_text, columns)}

\* C20: _rows_used walks the concatenation of prompt then text: for every
\* string s and every split s = p + t, _rows_used(p, t) is _rows_used("", s)
\* at the same width and tab size.
C20_SplitIndependent ==
    LET s == r_prompt \o r_text
        whole == _rows_used(<<>>, s, tabsize, columns)
    IN  /\ rpc = "returned" => whole.raised = "none" /\ walk.rows = whole.rows
        /\ rpc = "raised" => whole.raised = walk.raised
        /\ \A k \in 0..Len(s) :
              _rows_used(SubSeq(s, 1, k), SubSeq(s, k + 1, Len(s)), tabsize, columns) = whole

C20_Witness ==
    /\ rpc = "returned"
    /\ r_prompt = <<"a">>
    /\ r_text = <<"WIDE", "a">>
    /\ columns = 2
    /\ walk.rows = 3
    /\ _rows_used(<<>>, <<"a", "WIDE", "a">>, tabsize, columns).rows = 3

\* The JSON texts over the characters of a content: a run of digits, "[]",
\* or a JSON text between brackets.
RECURSIVE JsonTexts(_, _)
JsonTexts(depth, maxLen) ==
    IF depth = 0
    THEN {[k \in 1..n |-> "1"] : n \in 1..maxLen}
         \cup {<<"[", "]">>, <<"null">>, <<"{", "}">>, <<"{", "FROM", "}">>, <<"{", "KEY", "}">>}
    ELSE LET inner == JsonTexts(depth - 1, maxLen)
         IN  inner \cup {<<"[">> \o t \o <<"]">> : t \in inner}

IsJsonText(s) == s \in JsonTexts(Len(s), Len(s))

NotLF(c) == c # LF

\* C18: send_handler decides once between two outcomes: when the content
\* with its line breaks removed is JSON it returns the parsed value,
\* otherwise the content string unchanged, line breaks included; a parse
\* failure never aborts the send.
C18_ParsedOrRaw ==
    /\ sh_pc \in {"returned", "hooked"} =>
          LET stripped == SelectSeq(content, NotLF)
          IN  IF IsJsonText(stripped)
              THEN /\ output.json
                   /\ output.value.type \in {"int", "list", "null", "dict"}
                   /\ output.value = json_loads(stripped).value
                   /\ output.value.type = "int" => output.value.n = ParseInt(stripped)
              ELSE /\ ~output.json
                   /\ output.text = content
    /\ sh_pc = "read_error" => content = <<>> /\ output = NoOutput

C18_Witness ==
    /\ sh_pc = "returned"
    /\ content = <<"1", LF, "1">>
    /\ output.json
    /\ output.value = JsonInt(11)

\* The send_message tasks that hold a payload whose task_done is still due.
Calling == {t \in Senders : b_pc[t] = "calling"}

\* C21: the payloads put are taken at most once and in arrival order (what
\* arrived is what was taken followed by what waits); one send_message
\* call takes at most one payload, returns None only without having taken
\* one, and never leaves with QueueEmpty, however the tasks interleave;
\* task_done has been called once per payload taken whose call is over,
\* failed calls included.
C21_BufferedOnceInOrder ==
    /\ arrived = taken \o message_buffer
    /\ \A t \in Senders :
          /\ n_taken[t] <= 1
          /\ ret[t] = "None" => n_taken[t] = 0
          /\ exit_line[t] \in {107, 111} => ret[t] = "None"
          /\ ret[t] # "QueueEmpty"
    /\ task_dones + Cardinality(Calling) = Len(taken)
    /\ unfinished = Len(arrived) - task_dones

\* Two payloads were taken, one task found the queue emptied under the
\* lock, another saw its model call fail.
C21_Witness ==
    /\ Len(taken) >= 2
    /\ \E t \in Senders : exit_line[t] = 111
    /\ \E t \in Senders : ret[t] = "APIError"
    /\ Calling = {}

\* The catalogue as the vending machine prints it.
Catalogue == {"water", "soda", "crisps", "chocolate"}

PriceOf(name) ==
    CASE name = "water" -> 125
      [] name = "soda" -> 150
      [] name = "crisps" -> 175
      [] name = "chocolate" -> 200

\* C22: Purchase routes three ways and only these: an unknown product goes
\* back to SelectProduct with balance and stored product unchanged; a
\* catalogued product with balance below its price is stored and the graph
\* goes to InsertCoin, from where CoinsInserted goes straight to Purchase of
\* the stored product, not to SelectProduct; a catalogued product with
\* balance >= price costs exactly the price and ends the run.
C22_PurchaseRoutes ==
    /\ last.node = "Purchase" =>
          \/ /\ last.purchase \notin Catalogue
             /\ node = "SelectProduct"
             /\ user_balance = last.user_balance
             /\ product = last.product
          \/ /\ last.purchase \in Catalogue
             /\ last.user_balance < PriceOf(last.purchase)
             /\ node = "InsertCoin"
             /\ product = last.purchase
             /\ user_balance = last.user_balance
          \/ /\ last.purchase \in Catalogue
             /\ last.user_balance >= PriceOf(last.purchase)
             /\ node = "End"
             /\ user_balance = last.user_balance - PriceOf(last.purchase)
    /\ last.node = "InsertCoin" /\ node # "ValueError" =>
          node = "CoinsInserted" /\ product = last.product
    /\ last.node = "CoinsInserted" /\ last.product # NoProduct =>
          /\ node = "Purchase"
          /\ purchase = last.product
          /\ product = last.product

\* The run came back to Purchase with the stored product after more coins,
\* and a run ended with change.
C22_Witness ==
    /\ last.node = "CoinsInserted"
    /\ last.product = "soda"
    /\ node = "Purchase"
    /\ purchase = "soda"
    /\ Len(coins) >= 2
    /\ user_balance >= 150

NonNegative(c) == c >= 0

\* C26: when no coin inserted is negative the balance is never negative;
\* the stored product is unset or a key of PRODUCTS; the run ends only
\* from Purchase, with the balance that Purchase started from minus the
\* product's price.
C26_BalanceAndProduct ==
    /\ SelectSeq(coins, NonNegative) = coins => user_balance >= 0
    /\ product \in Catalogue \cup {NoProduct}
    /\ node = "End" =>
          /\ last.node = "Purchase"
          /\ last.purchase \in Catalogue
          /\ user_balance = last.user_balance - PriceOf(last.purchase)
          /\ product = last.purchase

\* A run ended with change returned after two insertions.
C26_Witness ==
    /\ node = "End"
    /\ Len(coins) >= 2
    /\ SelectSeq(coins, NonNegative) = coins
    /\ user_balance > 0
    /\ product = "crisps"

\* The files the approval demo calls protected.
Sensitive == {".env", "config.yml", "secrets.json"}

\* The deferred calls main has decided on: all of them once its loop is over.
Decided ==
    IF a_pc = "deciding" THEN {approvals[k] : k \in 1..(next_call - 1)}
    ELSE IF a_pc \in {"run2", "done"} THEN {approvals[k] : k \in 1..Len(approvals)}
    ELSE {}

\* C23: in the decision step a pending read_file call on a protected file
\* receives no approval in the deferred results, and every pending
\* delete_file call is denied.
C23_ProtectedReadsDenied ==
    \A id \in Decided :
        /\ tool_calls[id].tool_name = "read_file" /\ tool_calls[id].filename \in Sensitive
              => results[id] # "ToolApproved"
        /\ tool_calls[id].tool_name = "delete_file" => results[id] = "ToolDenied"

\* Every pending delete_file call is denied: the part of the decision step
\* that does what it prints.
DeletesDenied ==
    \A id \in Decided :
        tool_calls[id].tool_name = "delete_file" => results[id] = "ToolDenied"

\* C27: read_file returns content for a protected file only when the call
\* is approved; unapproved on a protected file it raises ApprovalRequired
\* and returns nothing; on an unprotected file it returns content, no
\* approval needed.
C27_ReadNeedsApproval ==
    \A k \in 1..Len(executions) :
        LET e == executions[k]
        IN  e.tool_name = "read_file" =>
              IF e.filename \in Sensitive
              THEN IF e.approved
                   THEN e.raised = "none" /\ e.value = <<"Updated", e.filename>>
                   ELSE e.raised = "ApprovalRequired" /\ e.value = <<>>
              ELSE e.raised = "none" /\ e.value = <<"Updated", e.filename>>

\* README.md was read with no approval, .env was refused and then read
\* once approved.
C27_Witness ==
    /\ a_pc = "done"
    /\ \E k \in 1..Len(executions) :
          /\ executions[k].filename = "README.md"
          /\ ~executions[k].approved
          /\ executions[k].raised = "none"
    /\ \E k \in 1..Len(executions) :
          /\ executions[k].filename = ".env"
          /\ ~executions[k].approved
          /\ executions[k].raised = "ApprovalRequired"
    /\ \E k \in 1..Len(executions) :
          /\ executions[k].filename = ".env"
          /\ executions[k].approved
          /\ executions[k].value = <<"Updated", ".env">>

\* The usernames and emails FakeDatabase holds, written out.
TakenUsernames == {<<"a", "d", "m", "i", "n">>, <<"u", "s", "e", "r">>, <<"t", "e", "s", "t">>}

TakenEmails == {"admin@test.com", "user@test.com"}

\* The spellings of a taken username, whatever the case of its letters.
SameLetters(a, b) ==
    /\ Len(a) = Len(b)
    /\ \A i \in 1..Len(a) :
          \/ a[i] = b[i]
          \/ <<a[i], b[i]>> \in {<<"A", "a">>, <<"D", "d">>, <<"I", "i">>, <<"M", "m">>,
                                 <<"N", "n">>, <<"T", "t">>, <<"U", "u">>}

UsernameTaken(name) == \E t \in TakenUsernames : SameLetters(name, t)

\* C24: validate_user_profile returns an output only if neither its
\* username (in any case of letters) nor its email is taken in
\* FakeDatabase; an output with a taken username or email raises ModelRetry.
C24_TakenIsRetried ==
    /\ v_pc = "returned" =>
          /\ ~UsernameTaken(v_output.username)
          /\ v_output.email \notin TakenEmails
          /\ v_result = v_output
    /\ v_pc = "ModelRetry" =>
          UsernameTaken(v_output.username) \/ v_output.email \in TakenEmails

\* The part about usernames: a taken username, in any case of letters, is
\* retried and any other is returned as proposed.
UsernamesChecked ==
    /\ v_pc = "returned" => ~UsernameTaken(v_output.username) /\ v_result = v_output
    /\ v_pc = "ModelRetry" => UsernameTaken(v_output.username)

\* The values a dict gives for "from", in member order.
IsFromMember(m) == m[1] = "from"

FromMembers(members) == SelectSeq(members, IsFromMember)

\* C25: the SEND hook attaches a fixed sender id: a str payload (typed
\* text that is no JSON) leaves as {"message": text, "from": "user"}; a
\* dict payload leaves as a dict whose one "from" is "user", a typed
\* "from" overwritten and the other members kept; any other parsed value
\* (a number, a list, null) gives None; nothing leaves with another "from".
C25_SenderIdIsUser ==
    sh_pc = "hooked" =>
        LET stripped == SelectSeq(content, NotLF)
        IN  /\ IF ~IsJsonText(stripped)
               THEN /\ sent.dict
                    /\ sent.members = <<<<"message", content>>, <<"from", <<"user">>>>>>
               ELSE IF stripped[1] = "{"
               THEN /\ sent.dict
                    /\ FromMembers(sent.members) = <<<<"from", <<"user">>>>>>
                    /\ stripped = <<"{", "KEY", "}">> =>
                          sent.members = <<<<"k", <<"v">>>>, <<"from", <<"user">>>>>>
               ELSE /\ ~sent.dict
                    /\ sent.members = <<>>
            /\ \A i \in 1..Len(sent.members) :
                  sent.members[i][1] = "from" => sent.members[i][2] = <<"user">>

\* The user typed {"from": "eve"} and it left as {"from": "user"}.
C25_Witness ==
    /\ sh_pc = "hooked"
    /\ content = <<"{", "FROM", "}">>
    /\ output.value.members = <<<<"from", <<"eve">>>>>>
    /\ sent.dict
    /\ sent.members = <<<<"from", <<"user">>>>>>

=============================================================================
